---- MODULE Spec2Model ----
(***************************************************************************)
(* A model of scrape.py, the job scraper.  The file holds two copies of    *)
(* the script one after the other; each copy ends with                      *)
(*     if __name__ == "__main__": main()                                    *)
(* so that one run of the script executes the first main() (line 340) and  *)
(* then, with every function redefined, the second main() (line 585).      *)
(* The variable ver says which copy is executing.                           *)
(*                                                                          *)
(* The web is the input.  Each request or page operation is one step of    *)
(* the model whose result (an exception, a non-OK status, a page, a list   *)
(* of links) is drawn from a small set.  Texts are sequences of one-       *)
(* character strings so that clean_text is computed, not assumed.          *)
(***************************************************************************)
EXTENDS Integers, Sequences, FiniteSets, TLC

\* ------------------------------------------------------------- bounds
\* Job links are 1 .. NumUrls.
NumUrls == 2
\* The sites serve at most MaxServed list items (jobs, links, postings) in
\* one run of the script, all lists together.
MaxServed == 2
\* A long list holds up to MaxOver links more than the cap of its loop.
MaxOver == 1
\* In a run with long lists the first MaxVaried detail visits of a scraper
\* end in any way; the later ones give a page with a title and a location.
MaxVaried == 1

\* ------------------------------------------------- program constants
SitemapCap == 200
SearchPages == 6
AppleCap == 80
PaginationRounds == 8
WorkdayCap == 120
InlineWorkdayCap == 100
ApiLimit == 50
NumTeamUrls == 2

Urls == 1 .. NumUrls
\* The empty string as a url ("" in the source).
NoUrl == 0
\* A link the Workday filter drops (its href matches /(login|apply|search)).
LoginUrl == NumUrls + 1

\* ------------------------------------------------------------- texts
\* Python's None, an absent element, and a raised exception, as results of
\* a lookup; every result is a tuple of strings.
NoneVal == <<"None">>
Absent == <<"absent">>
Raise == <<"raise">>

RawTitles == {<<" ">>, <<" ", "a", " ", " ", "b">>}
RawLocs == {<<" ">>, <<"L", " ">>}

RECURSIVE LStrip(_)
LStrip(s) == IF s = <<>> THEN <<>>
             ELSE IF Head(s) = " " THEN LStrip(Tail(s)) ELSE s

RECURSIVE RStrip(_)
RStrip(s) == IF s = <<>> THEN <<>>
             ELSE IF s[Len(s)] = " " THEN RStrip(SubSeq(s, 1, Len(s) - 1)) ELSE s

RECURSIVE Collapse(_)
Collapse(s) == IF s = <<>> THEN <<>>
               ELSE IF Head(s) = " " THEN <<" ">> \o Collapse(LStrip(s))
               ELSE <<Head(s)>> \o Collapse(Tail(s))

\* s or ""
OrEmpty(s) == IF s = NoneVal THEN <<>> ELSE s

\* re.sub(r"\s+", " ", (s or "").strip())
clean_text(s) == Collapse(RStrip(LStrip(OrEmpty(s))))

\* The placeholders "(Job)" and "(Apple role)".
JobPlaceholder == <<"(Job)">>
ApplePlaceholder == <<"(Apple role)">>

\* a or b, on texts
OrText(a, b) == IF a = <<>> THEN b ELSE a

\* ------------------------------------------------------------- lists
Min(a, b) == IF a < b THEN a ELSE b

\* s[:n]
Take(s, n) == SubSeq(s, 1, Min(n, Len(s)))

SeqsUpTo(S, n) == UNION {[1 .. k -> S] : k \in 0 .. n}

Range(s) == {s[i] : i \in 1 .. Len(s)}

NoDup(s) == \A i, j \in 1 .. Len(s) : s[i] = s[j] => i = j

\* list(S) of a Python set S: its elements once each, in any order.
Orders(S) == {s \in [1 .. Cardinality(S) -> S] : NoDup(s)}

\* list(dict.fromkeys(s)): the first occurrence of each element, in order.
FromKeys(s) ==
    LET first == {i \in 1 .. Len(s) : \A j \in 1 .. (i - 1) : s[j] # s[i]}
    IN [k \in 1 .. Cardinality(first) |->
           s[CHOOSE i \in first : Cardinality({j \in first : j <= i}) = k]]

\* ----------------------------------------------------------- records
Record(src, comp, t, l, u) ==
    [source |-> src, company |-> comp, title |-> t, location |-> l, url |-> u]

GreenhouseRecord(t, l, u) == Record("greenhouse", "Airbnb", t, l, u)

IcimsRecord(t, l, u) == Record("icims", "Liberty Mutual", t, l, u)

AppleRecord(t, l, u) == Record("apple", "Apple", t, l, u)

WorkdayRecordWrongCompany(t, l, u) == Record("workday", "Apple", t, l, u)

WorkdayRecord(t, l, u) == Record("workday", "Zillow", t, l, u)

Files == {"airbnb.json", "libertymutual.json", "apple.json", "zillow.json"}

\* A file that was never written, and a file holding rows.
NoFile == [exists |-> FALSE, rows |-> <<>>]

FileOf(rows) == [exists |-> TRUE, rows |-> rows]

VARIABLES
    pc,        \* where the script is
    ver,       \* 1: the main() of line 340, 2: the main() of line 585
    out,       \* the running scraper's out / apple_out / z_out
    links,     \* what is left of the list a "for href in links" walks
    seen,      \* the running scraper's seen set
    idx,       \* the loop counter: pr, the pagination round, the team
    pageOpen,  \* a Playwright page is open (close() not yet called)
    files,     \* the content of each output file
    raisedBy,  \* the operation whose exception left the script
    served,    \* list items served so far (the input bound)
    calls,     \* history: the scrapers called, in order
    writes,    \* history: the files written, in order
    visits,    \* history: the running scraper's detail visits
    plan,      \* history: the links of the detail loops started
    tiers,     \* history: the discovery tiers of the Workday scrape
    found,     \* history: the links the Workday tiers returned
    smDone,    \* history: records when the sitemap tier ended, -1 before
    searchReqs,\* history: search pages requested
    clicks,    \* history: next-page clicks that succeeded
    again      \* history: a list page gave a link an earlier one had given

vars == <<pc, ver, out, links, seen, idx, pageOpen, files, raisedBy, served,
          calls, writes, visits, plan, tiers, found, smDone, searchReqs, clicks,
          again>>

hist == <<visits, plan, tiers, found, smDone, searchReqs, clicks, again>>

Init ==
    /\ pc = "airbnb"
    /\ ver = 1
    /\ out = <<>>
    /\ links = <<>>
    /\ seen = {}
    /\ idx = 0
    /\ pageOpen = FALSE
    /\ files = [f \in Files |-> NoFile]
    /\ raisedBy = "none"
    /\ served = 0
    /\ calls = <<>>
    /\ writes = <<>>
    /\ visits = <<>>
    /\ plan = <<>>
    /\ tiers = <<>>
    /\ found = {}
    /\ smDone = -1
    /\ searchReqs = 0
    /\ clicks = 0
    /\ again = FALSE

\* What the sites may still serve.
Budget == MaxServed - served

\* save_json(name, rows)
save_json(name, rows) ==
    /\ files' = [files EXCEPT ![name] = FileOf(rows)]
    /\ writes' = Append(writes, name)

\* The history starts anew.
NoHistory ==
    /\ visits' = <<>>
    /\ plan' = <<>>
    /\ tiers' = <<>>
    /\ found' = {}
    /\ smDone' = -1
    /\ searchReqs' = 0
    /\ clicks' = 0
    /\ again' = FALSE

\* An exception of operation op leaves the script.
Propagate(op) ==
    /\ pc' = "raised"
    /\ raisedBy' = op

\* A detail visit: the link, how it ended ("raise", "notok", "ok") and the
\* cleaned title read from the page.
Visit(u, d) == [url |-> u, res |-> d.kind, title |-> IF d.kind = "ok" THEN d.title ELSE <<>>]

VisitUrls(vs) == [i \in 1 .. Len(vs) |-> vs[i].url]

\* -------------------------------------------- Airbnb (Greenhouse API)
\* The jobs the board API may list: a full posting, a posting with null
\* fields and only "url", and a posting whose "location" is a string.
DictLoc(n) == [kind |-> "dict", name |-> n]

JobObjs ==
    { [title |-> <<" ", "a", " ", " ", "b">>, location |-> DictLoc(<<"L", " ">>),
       absolute_url |-> 1, url |-> NoUrl],
      [title |-> NoneVal, location |-> [kind |-> "none", name |-> NoneVal],
       absolute_url |-> NoUrl, url |-> NumUrls],
      [title |-> <<"a">>, location |-> [kind |-> "str", name |-> NoneVal],
       absolute_url |-> NoUrl, url |-> NoUrl] }

\* The location text of job j, or Raise.  Line 32 asks isinstance(.., dict);
\* lines 374-376 call .get on any truthy location, which a string has not.
GreenhouseLoc(j, v) ==
    IF j.location.kind = "dict" THEN OrEmpty(j.location.name)
    ELSE IF j.location.kind = "str" /\ v = 2 THEN Raise
    ELSE <<>>

\* j.get("absolute_url") or j.get("url") or ""
GreenhouseUrl(j) == IF j.absolute_url # NoUrl THEN j.absolute_url ELSE j.url

GreenhouseOut(jobs, v) ==
    [i \in 1 .. Len(jobs) |->
        GreenhouseRecord(clean_text(jobs[i].title),
                         clean_text(GreenhouseLoc(jobs[i], v)),
                         GreenhouseUrl(jobs[i]))]

\* get(url) raises, or raise_for_status() does on a non-OK answer.
AirbnbFails ==
    /\ pc = "airbnb"
    /\ calls' = Append(calls, "airbnb")
    /\ Propagate("get_api")
    /\ out' = <<>>
    /\ links' = <<>>
    /\ seen' = {}
    /\ idx' = 0
    /\ NoHistory
    /\ UNCHANGED <<ver, pageOpen, served, files, writes>>

scrape_airbnb_greenhouse ==
    /\ pc = "airbnb"
    /\ calls' = Append(calls, "airbnb")
    /\ links' = <<>>
    /\ seen' = {}
    /\ idx' = 0
    /\ NoHistory
    /\ \E jobs \in SeqsUpTo(JobObjs, Budget) :
         /\ served' = served + Len(jobs)
         /\ IF \E i \in 1 .. Len(jobs) : GreenhouseLoc(jobs[i], ver) = Raise
            THEN /\ Propagate("location_get")
                 /\ out' = <<>>
                 /\ UNCHANGED <<files, writes>>
            ELSE /\ out' = GreenhouseOut(jobs, ver)
                 /\ save_json("airbnb.json", out')
                 /\ pc' = "icims_A"
                 /\ UNCHANGED raisedBy
    /\ UNCHANGED <<ver, pageOpen>>

\* -------------------------------------------- Liberty Mutual (iCIMS)
\* A detail page fetched with requests: the fetch raises, answers non-OK,
\* or gives a page with an h1, an og:title and a location element, each
\* absent or a text.
HttpDetails ==
    {[kind |-> k, h1 |-> Absent, og |-> Absent, loc |-> Absent] : k \in {"raise", "notok"}}
    \cup {[kind |-> "ok", h1 |-> h, og |-> o, loc |-> l] :
            h \in RawTitles \cup {Absent}, o \in RawTitles \cup {Absent},
            l \in RawLocs \cup {Absent}}

\* el.text if el else ""
ElText(e) == IF e = Absent THEN <<>> ELSE e

\* Lines 60-64: the h1, and the og:title when the h1 gives nothing.
SitemapTitle(d) ==
    LET t == clean_text(ElText(d.h1))
    IN IF t = <<>> /\ d.og # Absent THEN clean_text(d.og) ELSE t

\* Lines 95-96: the h1 only.
SearchTitle(d) == clean_text(ElText(d.h1))

IcimsLoc(d) == IF d.loc # Absent THEN clean_text(d.loc) ELSE <<>>

\* What a detail visit of each tier ends with: its kind, and for a page the
\* title and the location read from it.
Parsed(k, t, l) == [kind |-> k, title |-> t, loc |-> l]

SitemapVisits == {Parsed(d.kind, SitemapTitle(d), IcimsLoc(d)) : d \in HttpDetails}

SearchVisits == {Parsed(d.kind, SearchTitle(d), IcimsLoc(d)) : d \in HttpDetails}

\* "except Exception: pass" of a detail visit that raised, or "continue" of
\* a non-OK one: the loop goes on with the rest of the list.
DetailSkippedAbandon(rest) == <<>>

DetailSkipped(rest) == rest

\* Line 81: if not out
FallbackGuardAlways(o) == TRUE

FallbackGuard(o) == o = <<>>

\* The sitemap request failed: the outer "except Exception: pass", or a
\* non-OK answer, leaves links empty and goes on to tier B.
SitemapFailedRaises ==
    /\ Propagate("get_sitemap")
    /\ smDone' = smDone

SitemapFailed ==
    /\ pc' = "icims_B"
    /\ smDone' = 0
    /\ raisedBy' = raisedBy

\* Line 54: links = list(dict.fromkeys(links))[:200]
SitemapLinks(raw) == Take(FromKeys(raw), SitemapCap)

\* Lines 50-54: the sitemap is requested; raws are the lists of <loc>
\* matches it may hold.
SitemapTier(raws) ==
    /\ pc = "icims_A"
    /\ calls' = Append(calls, "icims")
    /\ out' = <<>>
    /\ seen' = {}
    /\ visits' = <<>>
    /\ searchReqs' = 0
    /\ \/ /\ SitemapFailed
          /\ links' = <<>>
          /\ plan' = <<>>
          /\ UNCHANGED served
       \/ \E raw \in raws :
            /\ served' = served + Len(raw)
            /\ links' = SitemapLinks(raw)
            /\ plan' = links'
            /\ pc' = IF links' = <<>> THEN "icims_B" ELSE "icims_A_detail"
            /\ smDone' = IF links' = <<>> THEN 0 ELSE -1
            /\ UNCHANGED raisedBy
    /\ UNCHANGED <<ver, idx, pageOpen, files, writes, tiers, found, clicks, again>>

IcimsSitemap == SitemapTier(SeqsUpTo(Urls, Budget))

\* Lines 55-76: the detail loop of the sitemap tier; pages are the ways a
\* detail visit may end.
SitemapDetail(pages) ==
    /\ pc = "icims_A_detail"
    /\ links # <<>>
    /\ LET href == Head(links) IN
       \E d \in pages :
         /\ visits' = Append(visits, Visit(href, d))
         /\ IF d.kind = "ok"
            THEN /\ out' = Append(out, IcimsRecord(OrText(d.title, JobPlaceholder),
                                                   d.loc, href))
                 /\ links' = Tail(links)
            ELSE /\ out' = out
                 /\ links' = DetailSkipped(Tail(links))
         /\ pc' = IF links' = <<>> THEN "icims_B" ELSE pc
         /\ smDone' = IF links' = <<>> THEN Len(out') ELSE smDone
    /\ UNCHANGED <<ver, seen, idx, pageOpen, files, raisedBy, served, calls, writes,
                   plan, tiers, found, searchReqs, clicks, again>>

IcimsSitemapDetail == SitemapDetail(SitemapVisits)

IcimsSave ==
    /\ save_json("libertymutual.json", out)
    /\ pc' = "launch"

\* Line 81: the fallback is entered, or the file is written.
IcimsB ==
    /\ pc = "icims_B"
    /\ IF FallbackGuard(out)
       THEN /\ pc' = "icims_search"
            /\ idx' = 0
            /\ UNCHANGED <<files, writes>>
       ELSE /\ IcimsSave
            /\ UNCHANGED idx
    /\ UNCHANGED <<ver, out, links, seen, pageOpen, raisedBy, served, calls, hist>>

\* Lines 82-88: one round of "for pr in range(0, 6)" up to the detail loop.
\* The loop's exhaustion is at the end of IcimsSearchDetail.
IcimsSearchRaises ==
    /\ pc = "icims_search"
    /\ idx < SearchPages
    /\ searchReqs' = searchReqs + 1
    /\ Propagate("get_search")
    /\ UNCHANGED <<ver, out, links, seen, idx, pageOpen, files, served, calls, writes,
                   visits, plan, tiers, found, smDone, clicks, again>>

IcimsSearchNotOk ==
    /\ pc = "icims_search"
    /\ idx < SearchPages
    /\ searchReqs' = searchReqs + 1
    /\ IcimsSave
    /\ UNCHANGED <<ver, out, links, seen, idx, pageOpen, raisedBy, served, calls,
                   visits, plan, tiers, found, smDone, clicks, again>>

IcimsSearchPage ==
    /\ pc = "icims_search"
    /\ idx < SearchPages
    /\ searchReqs' = searchReqs + 1
    /\ \E raw \in SeqsUpTo(Urls, Budget) :
         /\ served' = served + Len(raw)
         /\ links' = SelectSeq(raw, LAMBDA l : l \notin seen)
         /\ plan' = plan \o links'
         /\ IF links' = <<>>
            THEN IcimsSave
            ELSE /\ pc' = "icims_search_detail"
                 /\ UNCHANGED <<files, writes>>
    /\ UNCHANGED <<ver, out, seen, idx, pageOpen, raisedBy, calls,
                   visits, tiers, found, smDone, clicks, again>>

IcimsSearchDetail ==
    /\ pc = "icims_search_detail"
    /\ links # <<>>
    /\ LET href == Head(links) IN
       /\ seen' = seen \cup {href}
       /\ \E d \in SearchVisits :
            /\ visits' = Append(visits, Visit(href, d))
            /\ IF d.kind = "ok"
               THEN /\ out' = Append(out, IcimsRecord(OrText(d.title, JobPlaceholder),
                                                      d.loc, href))
                    /\ links' = Tail(links)
               ELSE /\ out' = out
                    /\ links' = DetailSkipped(Tail(links))
    /\ IF links' # <<>>
       THEN UNCHANGED <<pc, idx, files, writes>>
       ELSE /\ idx' = idx + 1
            /\ IF idx' < SearchPages
               THEN /\ pc' = "icims_search"
                    /\ UNCHANGED <<files, writes>>
               ELSE /\ save_json("libertymutual.json", out')
                    /\ pc' = "launch"
    /\ UNCHANGED <<ver, pageOpen, raisedBy, served, calls,
                   plan, tiers, found, smDone, searchReqs, clicks, again>>

\* ------------------------------------------------- Playwright pages
\* A detail page visited with Playwright: page.goto raises, or the page
\* loads; then locator("h1").first.text_content() raises (no h1 within the
\* timeout), returns None or a text, and each location selector is absent
\* (count() = 0), raises, or gives a text.
PwDetails(nsel) ==
    {[kind |-> "raise", h1 |-> Raise, locs |-> [i \in 1 .. nsel |-> Absent]]}
    \cup {[kind |-> "ok", h1 |-> h, locs |-> l] :
            h \in RawTitles \cup {Raise, NoneVal},
            l \in [1 .. nsel -> RawLocs \cup {Raise, Absent}]}

\* title = ""; try: title = ....text_content() or ""; except: pass; clean
PwTitle(d) == clean_text(IF d.h1 = Raise THEN <<>> ELSE d.h1)

\* for sel in [...]: the first selector whose cleaned text is not empty
RECURSIVE PwLoc(_)
PwLoc(ls) ==
    IF ls = <<>> THEN <<>>
    ELSE IF Head(ls) \in {Raise, Absent} THEN PwLoc(Tail(ls))
    ELSE IF clean_text(Head(ls)) # <<>> THEN clean_text(Head(ls))
    ELSE PwLoc(Tail(ls))

\* What a Playwright detail visit ends with, with two location selectors
\* (Apple, the inline Workday scrape) and with three (scrape_zillow_workday).
PwVisits2 == {Parsed(d.kind, PwTitle(d), PwLoc(d.locs)) : d \in PwDetails(2)}

PwVisits3 == {Parsed(d.kind, PwTitle(d), PwLoc(d.locs)) : d \in PwDetails(3)}

\* Lines 327-329, 470-472: sync_playwright(), launch, new_context.
Launch ==
    /\ pc = "launch"
    /\ \/ /\ Propagate("launch")
          /\ UNCHANGED <<out, idx, seen, calls, visits, plan, smDone, searchReqs>>
       \/ /\ pc' = "apple_team"
          /\ idx' = 0
          /\ out' = <<>>
          /\ seen' = {}
          /\ calls' = Append(calls, "apple")
          /\ visits' = <<>>
          /\ plan' = <<>>
          /\ smDone' = -1
          /\ searchReqs' = 0
          /\ UNCHANGED raisedBy
    /\ UNCHANGED <<ver, links, pageOpen, files, served, writes, tiers, found, clicks, again>>

\* ------------------------------------------------------ Apple (Jobs)
\* Lines 116-129: a team page is opened and its detail links collected.
\* An exception of goto or of eval_on_selector_all is not caught: the
\* finally closes the page and the exception leaves the scraper.
AppleTeamRaises ==
    /\ pc = "apple_team"
    /\ idx < NumTeamUrls
    /\ \E op \in {"goto_team", "collect"} : Propagate(op)
    /\ pageOpen' = FALSE
    /\ UNCHANGED <<ver, out, links, seen, idx, files, served, calls, writes, hist>>

\* finally: page.close(), when the team's links are all visited.  Lines
\* 159-162 swallow its exception; line 520 does not.
AppleClose ==
    /\ pageOpen' = FALSE
    /\ \/ /\ pc' = "apple_team"
          /\ idx' = idx + 1
          /\ UNCHANGED raisedBy
       \/ /\ ver = 2
          /\ Propagate("close_page")
          /\ UNCHANGED idx

\* Lines 129, 490: links = links[:80]
AppleLinks(l) == Take(l, AppleCap)

\* What list(set(...)) of lines 125-128 may be: the distinct hrefs of the
\* team page in any order.
TeamLists == UNION {Orders(hrefs) : hrefs \in {T \in SUBSET Urls : Cardinality(T) <= Budget}}

\* Lines 115-129: a team page is opened; lists are the link lists it may give.
TeamPage(lists) ==
    /\ pc = "apple_team"
    /\ idx < NumTeamUrls
    /\ \E l \in lists :
         /\ served' = served + Len(l)
         /\ links' = AppleLinks(l)
    /\ plan' = plan \o links'
    /\ IF links' = <<>>
       THEN AppleClose
       ELSE /\ pc' = "apple_detail"
            /\ pageOpen' = TRUE
            /\ UNCHANGED <<idx, raisedBy>>
    /\ UNCHANGED <<ver, out, seen, files, calls, writes,
                   visits, tiers, found, smDone, searchReqs, clicks, again>>

AppleTeam == TeamPage(TeamLists)

\* Lines 130-162: the detail loop of a team; pages are the ways a detail
\* visit may end.
TeamDetail(pages) ==
    /\ pc = "apple_detail"
    /\ links # <<>>
    /\ LET href == Head(links) IN
       \E d \in pages :
         /\ visits' = Append(visits, Visit(href, d))
         /\ IF d.kind = "ok"
            THEN /\ out' = Append(out, AppleRecord(OrText(d.title, ApplePlaceholder),
                                                   d.loc, href))
                 /\ links' = Tail(links)
            ELSE /\ out' = out
                 /\ links' = DetailSkipped(Tail(links))
    /\ IF links' = <<>>
       THEN AppleClose
       ELSE UNCHANGED <<pc, idx, pageOpen, raisedBy>>
    /\ UNCHANGED <<ver, seen, files, served, calls, writes,
                   plan, tiers, found, smDone, searchReqs, clicks, again>>

AppleDetail == TeamDetail(PwVisits2)

AppleSave ==
    /\ pc = "apple_team"
    /\ idx >= NumTeamUrls
    /\ save_json("apple.json", out)
    /\ pc' = IF ver = 1 THEN "z_open" ELSE "z2_open"
    /\ UNCHANGED <<ver, out, links, seen, idx, pageOpen, raisedBy, served, calls, hist>>

\* ---------------------------------- Zillow (Workday), lines 166-308
\* [h for h in hrefs if not re.search(r'/(login|apply|search)', h, re.I)]
FilterDetail(l) == SelectSeq(l, LAMBDA h : h # LoginUrl)

\* What collect_links() may return: the distinct hrefs of the page (the
\* JavaScript Set), filtered.
Collected == {FilterDetail(l) : l \in UNION {Orders(S) : S \in
                 {T \in SUBSET (Urls \cup {LoginUrl}) : Cardinality(T) <= Budget}}}

Tier(name) == [tier |-> name, foundNone |-> found = {}]

\* An exception inside the try of lines 180-299 that no inner except
\* catches: the finally closes the page and the exception leaves main().
ZRaise(op) ==
    /\ Propagate(op)
    /\ pageOpen' = FALSE

ZOpenRaises ==
    /\ pc = "z_open"
    /\ calls' = Append(calls, "workday")
    /\ \E op \in {"goto_board", "collect"} : ZRaise(op)
    /\ out' = <<>>
    /\ seen' = {}
    /\ NoHistory
    /\ UNCHANGED <<ver, links, idx, files, served, writes>>

\* Lines 174-198: the board page is opened and collect_links() called;
\* lists are what collect_links() may return.
BoardOpen(lists) ==
    /\ pc = "z_open"
    /\ calls' = Append(calls, "workday")
    /\ pageOpen' = TRUE
    /\ out' = <<>>
    /\ seen' = {}
    /\ visits' = <<>>
    /\ plan' = <<>>
    /\ clicks' = 0
    /\ again' = FALSE
    /\ idx' = 0
    /\ \E l \in lists :
         /\ links' = l
         /\ served' = served + Len(l)
    /\ found' = Range(links')
    /\ tiers' = IF links' # <<>>
                THEN << [tier |-> "anchors", foundNone |-> TRUE],
                        [tier |-> "paginate", foundNone |-> FALSE] >>
                ELSE << [tier |-> "anchors", foundNone |-> TRUE] >>
    /\ pc' = IF links' # <<>> THEN "z_paginate" ELSE "z_scroll"
    /\ UNCHANGED <<ver, files, raisedBy, writes, smDone, searchReqs>>

ZOpen == BoardOpen(Collected)

\* Lines 206-219: the three next-page selectors in order.  Each is absent
\* (count() = 0), is clicked, raises in click() (caught, the next selector
\* is tried), or raises in count() (not caught).
SelOutcomes == {"absent", "click", "clickfail", "countraise"}

RECURSIVE TrySelectors(_)
TrySelectors(o) ==
    IF o = <<>> THEN "none"
    ELSE IF Head(o) = "click" THEN "clicked"
    ELSE IF Head(o) = "countraise" THEN "raise"
    ELSE TrySelectors(Tail(o))

\* for _ in range(8)
MoreRoundsOneMore(i) == i < PaginationRounds + 1

MoreRounds(i) == i < PaginationRounds

\* Line 220: if not clicked: break
StopWhenNotClickedNever(r) == FALSE

StopWhenNotClicked(r) == r = "none"

ZPaginateEnd ==
    /\ pc = "z_paginate"
    /\ ~MoreRounds(idx)
    /\ pc' = "z_scroll"
    /\ UNCHANGED <<ver, out, links, seen, idx, pageOpen, files, raisedBy, served,
                   calls, writes, hist>>

\* Lines 203-222: one round of the pagination loop.
ZPaginate ==
    /\ pc = "z_paginate"
    /\ MoreRounds(idx)
    /\ seen' = seen \cup Range(links)
    /\ \E o \in [1 .. 3 -> SelOutcomes] :
         LET r == TrySelectors(o) IN
         IF r = "raise"
         THEN /\ ZRaise("count")
              /\ UNCHANGED <<links, idx, served, found, clicks, again>>
         ELSE IF StopWhenNotClicked(r)
         THEN /\ pc' = "z_scroll"
              /\ UNCHANGED <<links, idx, served, found, clicks, again, pageOpen, raisedBy>>
         ELSE /\ clicks' = IF r = "clicked" THEN clicks + 1 ELSE clicks
              /\ \/ /\ ZRaise("collect")
                    /\ UNCHANGED <<links, idx, served, found, again>>
                 \/ /\ \E l \in Collected :
                         /\ links' = l
                         /\ served' = served + Len(l)
                    /\ found' = found \cup Range(links')
                    /\ again' = (again \/ Range(links') \cap found # {})
                    /\ idx' = idx + 1
                    /\ UNCHANGED <<pc, pageOpen, raisedBy>>
    /\ UNCHANGED <<ver, out, files, calls, writes, visits, plan, tiers, smDone, searchReqs>>

\* Line 225: if not seen
ScrollGuardOnLinks(s, l) == l = <<>>

ScrollGuard(s, l) == s = {}

\* Line 234: if not seen
ApiGuardAlways(s) == TRUE

ApiGuard(s) == s = {}

ZScrollSkip ==
    /\ pc = "z_scroll"
    /\ ~ScrollGuard(seen, links)
    /\ pc' = "z_api"
    /\ UNCHANGED <<ver, out, links, seen, idx, pageOpen, files, raisedBy, served,
                   calls, writes, hist>>

\* Lines 226-231: ten wheel scrolls, then collect_links() again.
ZScroll ==
    /\ pc = "z_scroll"
    /\ ScrollGuard(seen, links)
    /\ tiers' = Append(tiers, Tier("scroll"))
    /\ \/ /\ \E op \in {"wheel", "collect"} : ZRaise(op)
          /\ UNCHANGED <<links, seen, served, found, again>>
       \/ /\ \E l \in Collected :
               /\ links' = l
               /\ served' = served + Len(l)
          /\ seen' = seen \cup Range(links')
          /\ found' = found \cup Range(links')
          /\ again' = (again \/ Range(links') \cap found # {})
          /\ pc' = "z_api"
          /\ UNCHANGED <<pageOpen, raisedBy>>
    /\ UNCHANGED <<ver, out, idx, files, calls, writes, visits, plan,
                   smDone, searchReqs, clicks>>

ZApiSkip ==
    /\ pc = "z_api"
    /\ ~ApiGuard(seen)
    /\ pc' = "z_visit"
    /\ UNCHANGED <<ver, out, links, seen, idx, pageOpen, files, raisedBy, served,
                   calls, writes, hist>>

\* Lines 235-266: the cxs endpoint is called from the page.  The postings
\* are those of the first answer while it holds fewer than "limit" (50)
\* of them, which every answer within MaxServed does; a posting without
\* externalPath (NoUrl) adds nothing.  An exception of page.evaluate is
\* caught (line 265).
ZApi ==
    /\ pc = "z_api"
    /\ ApiGuard(seen)
    /\ tiers' = Append(tiers, Tier("api"))
    /\ \/ UNCHANGED <<seen, served, found, again>>
       \/ \E postings \in SeqsUpTo(Urls \cup {NoUrl}, Min(Budget, ApiLimit - 1)) :
            LET paths == SelectSeq(postings, LAMBDA ep : ep # NoUrl) IN
            /\ postings # <<>>
            /\ served' = served + Len(postings)
            /\ seen' = seen \cup Range(paths)
            /\ found' = found \cup Range(paths)
            /\ again' = (again \/ ~NoDup(paths) \/ Range(paths) \cap found # {})
    /\ pc' = "z_visit"
    /\ UNCHANGED <<ver, out, links, idx, pageOpen, files, raisedBy, calls, writes,
                   visits, plan, smDone, searchReqs, clicks>>

\* Line 269: links = list(seen)[:120]
WorkdayLinksUncapped(l) == l

WorkdayLinks(l) == Take(l, WorkdayCap)

VisitListWithRepeats(s) == {Take(l \o l, WorkdayCap) : l \in Orders(s)}

VisitList(s) == {WorkdayLinks(l) : l \in Orders(s)}

\* Lines 268-270: the detail loop starts; lists are what list(seen)[:120]
\* may be.
StartVisits(lists) ==
    /\ pc = "z_visit"
    /\ links' \in lists
    /\ plan' = links'
    /\ tiers' = Append(tiers, Tier("detail"))
    /\ pc' = IF links' = <<>> THEN "z_close" ELSE "z_detail"
    /\ UNCHANGED <<ver, out, seen, idx, pageOpen, files, raisedBy, served, calls, writes,
                   visits, found, smDone, searchReqs, clicks, again>>

ZVisit == StartVisits(VisitList(seen))

\* Lines 290, 558: if title
EmitWorkdayAlways(title) == TRUE

EmitWorkday(title) == title # <<>>

\* Lines 270-299 (three location selectors) and 538-567 (two).
WorkdayDetail(here, pages, done) ==
    /\ pc = here
    /\ links # <<>>
    /\ LET href == Head(links) IN
       \E d \in pages :
         /\ visits' = Append(visits, Visit(href, d))
         /\ IF d.kind = "ok"
            THEN /\ out' = IF EmitWorkday(d.title)
                           THEN Append(out, WorkdayRecord(d.title, d.loc, href))
                           ELSE out
                 /\ links' = Tail(links)
            ELSE /\ out' = out
                 /\ links' = DetailSkipped(Tail(links))
    /\ pc' = IF links' = <<>> THEN done ELSE pc
    /\ UNCHANGED <<ver, seen, idx, pageOpen, files, raisedBy, served, calls, writes,
                   plan, tiers, found, smDone, searchReqs, clicks, again>>

ZDetail == WorkdayDetail("z_detail", PwVisits3, "z_close")

\* Lines 301-308: finally: page.close(), its exception swallowed; then
\* save_json and return.  Lines 334-340: context.close(), browser.close(),
\* the print; main() returns and the script goes on to line 342: everything
\* is defined again and line 585 calls main() once more.
ZClose ==
    /\ pc = "z_close"
    /\ pageOpen' = FALSE
    /\ save_json("zillow.json", out)
    /\ \/ /\ Propagate("close_browser")
          /\ UNCHANGED ver
       \/ /\ pc' = "airbnb"
          /\ ver' = 2
          /\ UNCHANGED raisedBy
    /\ UNCHANGED <<out, links, seen, idx, served, calls, hist>>

\* ----------------------- Zillow inline in scrape_with_playwright
Z2OpenRaises ==
    /\ pc = "z2_open"
    /\ calls' = Append(calls, "workday")
    /\ \E op \in {"goto_board", "collect"} : ZRaise(op)
    /\ out' = <<>>
    /\ NoHistory
    /\ UNCHANGED <<ver, links, seen, idx, files, served, writes>>

\* list(set(hrefs)) of line 531
AnchorListWithRepeats(S) == {l \o l : l \in Orders(S)}

AnchorList(S) == Orders(S)

\* Line 537: anchors = anchors[:100]
InlineLinks(l) == Take(l, InlineWorkdayCap)

\* What list(set(...)) of lines 531-534 may be.
AnchorLists == UNION {AnchorList(S) : S \in
                 {T \in SUBSET (Urls \cup {LoginUrl}) : Cardinality(T) <= Budget}}

\* Lines 524-537: the anchors of the board page, once each, filtered,
\* at most 100; lists are the anchor lists the page may give.
InlineOpen(lists) ==
    /\ pc = "z2_open"
    /\ calls' = Append(calls, "workday")
    /\ pageOpen' = TRUE
    /\ out' = <<>>
    /\ visits' = <<>>
    /\ \E l \in lists :
         /\ served' = served + Len(l)
         /\ links' = InlineLinks(FilterDetail(l))
    /\ plan' = links'
    /\ pc' = IF links' = <<>> THEN "z2_close" ELSE "z2_detail"
    /\ UNCHANGED <<ver, seen, idx, files, raisedBy, writes,
                   tiers, found, smDone, searchReqs, clicks, again>>

Z2Open == InlineOpen(AnchorLists)

Z2Detail == WorkdayDetail("z2_detail", PwVisits2, "z2_close")

\* Lines 568-573: finally: page.close(); context.close(); browser.close(),
\* none of them guarded; then save_json.
Z2Close ==
    /\ pc = "z2_close"
    /\ pageOpen' = FALSE
    /\ \/ /\ \E op \in {"close_page", "close_browser"} : Propagate(op)
          /\ UNCHANGED <<files, writes>>
       \/ /\ save_json("zillow.json", out)
          /\ pc' = "exit"
          /\ UNCHANGED raisedBy
    /\ UNCHANGED <<ver, out, links, seen, idx, served, calls, hist>>

Next ==
    \/ AirbnbFails
    \/ scrape_airbnb_greenhouse
    \/ IcimsSitemap
    \/ IcimsSitemapDetail
    \/ IcimsB
    \/ IcimsSearchRaises
    \/ IcimsSearchNotOk
    \/ IcimsSearchPage
    \/ IcimsSearchDetail
    \/ Launch
    \/ AppleTeamRaises
    \/ AppleTeam
    \/ AppleDetail
    \/ AppleSave
    \/ ZOpenRaises
    \/ ZOpen
    \/ ZPaginateEnd
    \/ ZPaginate
    \/ ZScrollSkip
    \/ ZScroll
    \/ ZApiSkip
    \/ ZApi
    \/ ZVisit
    \/ ZDetail
    \/ ZClose
    \/ Z2OpenRaises
    \/ Z2Open
    \/ Z2Detail
    \/ Z2Close

Spec == Init /\ [][Next]_vars

\* -------------------------------- the Workday scrape on its own
\* The state in which main() (line 332) calls scrape_zillow_workday when
\* the three earlier sites listed nothing: their files hold empty arrays.
WorkdayInit ==
    /\ pc = "z_open"
    /\ ver = 1
    /\ out = <<>>
    /\ links = <<>>
    /\ seen = {}
    /\ idx = NumTeamUrls
    /\ pageOpen = FALSE
    /\ files = [f \in Files |-> IF f = "zillow.json" THEN NoFile ELSE FileOf(<<>>)]
    /\ raisedBy = "none"
    /\ served = 0
    /\ calls = <<"airbnb", "icims", "apple">>
    /\ writes = <<"airbnb.json", "libertymutual.json", "apple.json">>
    /\ visits = <<>>
    /\ plan = <<>>
    /\ tiers = <<>>
    /\ found = {}
    /\ smDone = -1
    /\ searchReqs = 0
    /\ clicks = 0
    /\ again = FALSE

WorkdayNext ==
    \/ ZOpenRaises
    \/ ZOpen
    \/ ZPaginateEnd
    \/ ZPaginate
    \/ ZScrollSkip
    \/ ZScroll
    \/ ZApiSkip
    \/ ZApi
    \/ ZVisit
    \/ ZDetail
    \/ ZClose

\* The scrape is sequential code in which every page operation returns or
\* raises: while a step is possible, one is taken.
WorkdayFairSpec == WorkdayInit /\ [][WorkdayNext]_vars /\ WF_vars(WorkdayNext)

\* ------------------------------------------- the sites list many jobs
\* The same scrapers when a site lists about as many jobs as the cap of the
\* loop that visits them.  A long list is the links LoginUrl + 1 ..
\* LoginUrl + n in that order; n is one less than the cap up to MaxOver
\* more.  Each scraper is entered in the state in which main() calls it
\* when the sites before it listed nothing, and one site lists many jobs
\* in a run: a long list is served while nothing was served, or to the
\* next team page of the Apple scrape.

LongList(n) == [i \in 1 .. n |-> LoginUrl + i]

LongLists(cap) == {LongList(n) : n \in (cap - 1) .. (cap + MaxOver)}

\* A sitemap may name a job twice, and a board page holds a login link.
LongSitemaps == LongLists(SitemapCap) \cup {l \o <<l[1]>> : l \in LongLists(SitemapCap)}

LongBoards == {<<LoginUrl>> \o l : l \in LongLists(WorkdayCap)}

LongAnchors == {<<LoginUrl>> \o l : l \in LongLists(InlineWorkdayCap)}

\* A detail page with an h1 and a location.
OkPage == Parsed("ok", clean_text(<<" ", "a", " ", " ", "b">>), clean_text(<<"L", " ">>))

Varied(pages) == IF Len(visits) < MaxVaried THEN pages ELSE pages \cap {OkPage}

\* list(seen) in the order of the links' numbers, one of Orders(seen).
Ascending(S) ==
    [k \in 1 .. Cardinality(S) |-> CHOOSE x \in S : Cardinality({y \in S : y <= x}) = k]

ManySitemap == served = 0 /\ SitemapTier(LongSitemaps)

ManySitemapDetail == SitemapDetail(Varied(SitemapVisits))

ManyTeam == (served = 0 \/ idx > 0) /\ TeamPage(LongLists(AppleCap))

ManyTeamDetail == TeamDetail(Varied(PwVisits2))

ManyBoard == served = 0 /\ BoardOpen({FilterDetail(l) : l \in LongBoards})

ManyVisit == StartVisits({WorkdayLinks(Ascending(seen))})

ManyDetail == WorkdayDetail("z_detail", Varied(PwVisits3), "z_close")

ManyInline == served = 0 /\ InlineOpen(LongAnchors)

ManyInlineDetail == WorkdayDetail("z2_detail", Varied(PwVisits2), "z2_close")

CapEntries == {"icims_A", "launch", "z_open", "z2_open"}

\* The scrapers called and the files written before each entry.
CallsBefore(e) ==
    CASE e = "icims_A" -> <<"airbnb">>
      [] e = "launch" -> <<"airbnb", "icims">>
      [] e = "z_open" -> <<"airbnb", "icims", "apple">>
      [] e = "z2_open" -> <<"airbnb", "icims", "apple", "workday", "airbnb", "icims", "apple">>

CapInit ==
    /\ pc \in CapEntries
    /\ ver = IF pc = "z2_open" THEN 2 ELSE 1
    /\ out = <<>>
    /\ links = <<>>
    /\ seen = {}
    /\ idx = IF pc \in {"z_open", "z2_open"} THEN NumTeamUrls ELSE 0
    /\ pageOpen = FALSE
    /\ raisedBy = "none"
    /\ served = 0
    /\ calls = CallsBefore(pc)
    /\ writes = [i \in 1 .. Len(calls) |->
                    <<"airbnb.json", "libertymutual.json", "apple.json", "zillow.json">>[((i - 1) % 4) + 1]]
    /\ files = [f \in Files |-> IF f \in Range(writes) THEN FileOf(<<>>) ELSE NoFile]
    /\ visits = <<>>
    /\ plan = <<>>
    /\ tiers = <<>>
    /\ found = {}
    /\ smDone = IF pc = "launch" THEN 0 ELSE -1
    /\ searchReqs = IF pc = "launch" THEN 1 ELSE 0
    /\ clicks = 0
    /\ again = FALSE

CapNext ==
    \/ ManySitemap
    \/ ManySitemapDetail
    \/ IcimsB
    \/ Launch
    \/ AppleTeamRaises
    \/ ManyTeam
    \/ ManyTeamDetail
    \/ AppleSave
    \/ ZOpenRaises
    \/ ManyBoard
    \/ ZPaginate
    \/ ZScrollSkip
    \/ ZApiSkip
    \/ ManyVisit
    \/ ManyDetail
    \/ ZClose
    \/ Z2OpenRaises
    \/ ManyInline
    \/ ManyInlineDetail
    \/ Z2Close

CapSpec == CapInit /\ [][CapNext]_vars

\* ------------------------------------------------------------ claims
FiveFields == {"source", "company", "title", "location", "url"}

Employer(f) ==
    CASE f = "airbnb.json" -> <<"greenhouse", "Airbnb">>
      [] f = "libertymutual.json" -> <<"icims", "Liberty Mutual">>
      [] f = "apple.json" -> <<"apple", "Apple">>
      [] f = "zillow.json" -> <<"workday", "Zillow">>

ScraperFile(c) ==
    CASE c = "airbnb" -> "airbnb.json"
      [] c = "icims" -> "libertymutual.json"
      [] c = "apple" -> "apple.json"
      [] c = "workday" -> "zillow.json"

Last(s) == s[Len(s)]

IsPrefix(s, t) == Len(s) <= Len(t) /\ \A i \in 1 .. Len(s) : s[i] = t[i]

RowsOf(rows, f) ==
    \A i \in 1 .. Len(rows) :
        /\ DOMAIN rows[i] = FiveFields
        /\ <<rows[i].source, rows[i].company>> = Employer(f)

RowUrls(rows) == [i \in 1 .. Len(rows) |-> rows[i].url]

\* The Workday scrape (of either copy) is the last scraper called.
InWorkday == calls # <<>> /\ Last(calls) = "workday"

\* The first copy's Workday scrape has returned and nothing ran since.
WorkdayReturned == pc = "airbnb" /\ ver = 2

HasTier(t) == \E i \in DOMAIN tiers : tiers[i].tier = t

\* C1: every record of an output array, and of a file, has exactly the five
\* fields source, company, title, location, url, and its (source, company)
\* is the constant of the scraper that wrote it, which is the file's.
C1_RecordsOfTheirScraper ==
    /\ \A f \in Files : RowsOf(files[f].rows, f)
    /\ calls # <<>> => RowsOf(out, ScraperFile(Last(calls)))

C1_Witness ==
    /\ files["apple.json"].rows # <<>>
    /\ files["zillow.json"].rows # <<>>

\* The iCIMS scrape is over: the file is written, or a search request raised.
IcimsEnded == pc = "launch" \/ (pc = "raised" /\ raisedBy \in {"get_search", "launch"})

\* C2: a search page is requested only if the sitemap tier ended with no
\* record, and whenever it ended with no record a search page is requested.
C2_SearchIffSitemapEmpty ==
    /\ searchReqs > 0 => smDone = 0
    /\ IcimsEnded /\ smDone = 0 => searchReqs > 0

C2_Witness ==
    /\ pc = "launch"
    /\ smDone = 0
    /\ searchReqs > 1
    /\ \E i \in DOMAIN visits : visits[i].res # "ok"

\* C3 as stated: whenever a next-page control has been clicked, the cxs API
\* call was attempted before.
C3_ApiBeforePagination == clicks > 0 => HasTier("api")

\* C3 amended: the cxs API call is the last discovery tier: it is attempted
\* third, after the anchor collection and the scroll, only when they found no
\* link, and never in a scrape in which a next-page control was clicked.
C3_ApiIsLastTier ==
    \A i \in DOMAIN tiers :
        tiers[i].tier = "api" =>
            /\ i = 3
            /\ tiers[1].tier = "anchors"
            /\ tiers[2].tier = "scroll"
            /\ tiers[i].foundNone
            /\ clicks = 0

C3_Witness == HasTier("api") /\ out # <<>>

TierRank(t) ==
    CASE t = "anchors" -> 1
      [] t = "paginate" -> 2
      [] t = "scroll" -> 3
      [] t = "api" -> 4
      [] t = "detail" -> 5

\* C4: the tiers run in the docstring's order (anchors with pagination,
\* scroll, cxs API, detail visits), the scroll and the API tier are attempted
\* only when no link was found before, and a detail page is visited only
\* after the last discovery tier.
C4_TiersInOrder ==
    /\ \A i, j \in DOMAIN tiers :
          i < j => TierRank(tiers[i].tier) < TierRank(tiers[j].tier)
    /\ tiers # <<>> => tiers[1].tier = "anchors"
    /\ \A i \in DOMAIN tiers : tiers[i].tier \in {"scroll", "api"} => tiers[i].foundNone
    /\ InWorkday /\ ver = 1 /\ visits # <<>> =>
          /\ tiers # <<>>
          /\ Last(tiers).tier = "detail"
          /\ pc \in {"z_detail", "z_close", "raised"}

C4_Witness ==
    /\ HasTier("scroll")
    /\ HasTier("api")
    /\ HasTier("detail")
    /\ visits # <<>>

\* C5 as stated: every Workday detail page that loaded has a record, also
\* the one without a title.
C5_UntitledStillEmitted ==
    InWorkday =>
        \A i \in DOMAIN visits :
            visits[i].res = "ok" => \E k \in DOMAIN out : out[k].url = visits[i].url

\* C5 amended: a Workday detail page whose h1 text is missing or empty after
\* cleaning gives no record; every record of zillow.json has a title read
\* from an h1.
C5_UntitledSkipped ==
    /\ \A k \in DOMAIN files["zillow.json"].rows :
          files["zillow.json"].rows[k].title # <<>>
    /\ InWorkday =>
          /\ \A k \in DOMAIN out : out[k].title # <<>>
          /\ \A i \in DOMAIN visits :
                visits[i].res = "ok" /\ visits[i].title = <<>> =>
                    ~ \E k \in DOMAIN out : out[k].url = visits[i].url

C5_Witness ==
    /\ WorkdayReturned
    /\ \E i \in DOMAIN visits : visits[i].res = "ok" /\ visits[i].title = <<>>
    /\ files["zillow.json"].exists
    /\ files["zillow.json"].rows = <<>>

\* C6: in a Workday scrape no detail url is visited twice, and zillow.json
\* never holds two records with the same url.
C6_NoRepeatedVisit ==
    /\ InWorkday => NoDup(VisitUrls(visits)) /\ NoDup(plan)
    /\ NoDup(RowUrls(files["zillow.json"].rows))

C6_Witness ==
    /\ WorkdayReturned
    /\ again
    /\ clicks > 0
    /\ Len(files["zillow.json"].rows) = 1

\* The operations whose exception no except clause catches.
Unguarded(v) ==
    {"get_api", "location_get", "get_search", "launch", "goto_team", "collect",
     "goto_board", "count", "wheel", "close_browser"}
    \cup (IF v = 2 THEN {"close_page"} ELSE {})

\* A scraper has been called and has not returned.
InScraper ==
    \/ pc \in {"icims_A_detail", "icims_B", "icims_search", "icims_search_detail",
               "apple_team", "apple_detail", "z_paginate", "z_scroll", "z_api",
               "z_visit", "z_detail", "z_close", "z2_detail", "z2_close"}
    \/ /\ pc = "raised"
       /\ raisedBy # "launch"
       /\ ~(raisedBy = "close_browser" /\ ver = 1)

\* C7 as stated: no failed fetch or page operation ever leaves the script.
C7_EveryFailureSwallowed == pc = "raised" => raisedBy = "location_get"

\* C7 amended: only an operation outside every try/except ends the script,
\* and then the running scraper's file is not written and no later scraper
\* runs; every scraper that returned wrote its file.
C7_SwallowedOrFatal ==
    /\ pc = "raised" => raisedBy \in Unguarded(ver)
    /\ pc # "raised" => raisedBy = "none"
    /\ Len(writes) = Len(calls) - (IF InScraper THEN 1 ELSE 0)
    /\ \A i \in DOMAIN writes : writes[i] = ScraperFile(calls[i])

C7_Witness ==
    /\ pc = "z_open"
    /\ files["apple.json"].exists
    /\ \E i \in DOMAIN visits : visits[i].res = "raise"

\* C8: while no scraper raised, the four scrapes are called once each and
\* the four files written once each, in the order Greenhouse, iCIMS, Apple,
\* Workday.
C8_OneShot ==
    pc # "raised" =>
        /\ IsPrefix(calls, <<"airbnb", "icims", "apple", "workday">>)
        /\ IsPrefix(writes, <<"airbnb.json", "libertymutual.json", "apple.json",
                              "zillow.json">>)

\* The Workday scrape of the first copy is over.
WorkdayOver == WorkdayReturned \/ pc = "raised"

\* C9 as stated: when the scrape is over, the detail visits are done and the
\* page is closed.
C9_EndsAfterDetailVisits == WorkdayOver => HasTier("detail") /\ ~pageOpen

\* C9 amended: a next-page control is clicked at most 8 times, the loop goes
\* on only after a round that clicked, the scrape always comes to its end
\* with the page closed, and its detail visits are all done unless an
\* operation outside the try/excepts raised.
C9_PaginationTerminates ==
    /\ [](clicks <= PaginationRounds)
    /\ [](pc = "z_paginate" => idx = clicks)
    /\ <>WorkdayOver
    /\ [](WorkdayOver => ~pageOpen)
    /\ [](WorkdayReturned => HasTier("detail") /\ links = <<>> /\ VisitUrls(visits) = plan)

C9_Witness ==
    /\ WorkdayReturned
    /\ clicks = PaginationRounds
    /\ visits # <<>>

DetailPcs == {"icims_A_detail", "icims_search_detail", "apple_detail", "z_detail", "z2_detail"}

\* The visits that loaded a page which gives a record.
RECURSIVE Emitting(_)
Emitting(vs) ==
    IF vs = <<>> THEN <<>>
    ELSE LET v == vs[Len(vs)]
             r == Emitting(SubSeq(vs, 1, Len(vs) - 1))
         IN IF v.res = "ok" /\ (InWorkday => v.title # <<>>) THEN Append(r, v.url) ELSE r

\* The scraper has just written its file.
JustWrote(f) ==
    CASE f = "libertymutual.json" -> pc = "launch"
      [] f = "apple.json" -> pc \in {"z_open", "z2_open"}
      [] f = "zillow.json" -> WorkdayReturned \/ pc = "exit"

\* C10: a detail visit that raised adds no record and leaves the records
\* as they are, the rest of the list is still visited, and the file is
\* written with the records of the visits that succeeded.
C10_DetailFailureIsolated ==
    /\ calls # <<>> /\ Last(calls) # "airbnb" => RowUrls(out) = Emitting(visits)
    /\ pc \in DetailPcs => VisitUrls(visits) \o links = plan
    /\ pc \notin DetailPcs => VisitUrls(visits) = plan
    /\ \A f \in Files \ {"airbnb.json"} : JustWrote(f) => files[f] = FileOf(out)

C10_Witness ==
    /\ pc # "raised"
    /\ \E f \in Files \ {"airbnb.json"} : JustWrote(f) /\ Len(files[f].rows) = 1
    /\ Len(visits) = 2
    /\ visits[1].res = "raise"
    /\ visits[2].res = "ok"

\* The detail visits done and still to do in the loop that is running.
LoopSize == Len(visits) + (IF pc \in DetailPcs THEN Len(links) ELSE 0)

\* C11: the detail visits are capped: at most 200 in the iCIMS sitemap
\* tier, at most 80 for each Apple team URL, at most 120 in
\* scrape_zillow_workday and 100 in the inline Workday scrape; zillow.json
\* never holds more than 120 records and apple.json never more than 80
\* times the number of team URLs.
C11_VisitsCapped ==
    /\ pc \in {"icims_A_detail", "icims_B"} => LoopSize <= SitemapCap
    /\ pc = "apple_detail" => Len(links) <= AppleCap /\ LoopSize <= AppleCap * (idx + 1)
    /\ pc = "apple_team" => Len(visits) <= AppleCap * idx
    /\ InWorkday /\ pc \in {"z_detail", "z_close"} => LoopSize <= WorkdayCap
    /\ InWorkday /\ pc \in {"z2_detail", "z2_close"} => LoopSize <= InlineWorkdayCap
    /\ Len(files["zillow.json"].rows) <= WorkdayCap
    /\ Len(files["apple.json"].rows) <= AppleCap * NumTeamUrls

\* The board listed more links than the cap, and the file holds as many
\* records as the cap.
C11_Witness ==
    /\ WorkdayReturned
    /\ Cardinality(seen) > WorkdayCap
    /\ Len(visits) = WorkdayCap
    /\ Len(files["zillow.json"].rows) = WorkdayCap

\* C12: no collected link is lost by pagination: every link collect_links
\* returned on a list page reached during pagination is in seen when the
\* detail visits start.
C12_NoLinkLost == InWorkday /\ pc = "z_visit" => found \subseteq seen

====
